---- MODULE Spec2Model ----
(***************************************************************************)
(* ModelConverter: BoneTable registration, processSkeleton (parent         *)
(* resolution, multi-pass topological sort, remap), AddBoneWeight /        *)
(* NormalizeWeights and processMesh, as written in src/main.cpp.           *)
(*                                                                         *)
(* Bone and node names are the integers 1..MaxNames; their numeric order   *)
(* stands for the std::string order that std::map iterates in.             *)
(* A std::map is a function whose DOMAIN is its key set.                   *)
(* A float weight is an exact fraction <<n, d>> counted in units of 1e-6,   *)
(* so that the threshold 1e-6f of NormalizeWeights is EpsUnits and 1.0f is *)
(* UnitsPerOne; float rounding (a few ulp) is not represented.             *)
(***************************************************************************)
EXTENDS Integers, Sequences, FiniteSets, Bags, TLC

\* ---------------------------------------------------------------- bounds
MaxNames == 3
MaxNodes == 3
MaxPasses == 5
MaxMeshes == 2
MaxBoneRecs == 2
MaxScan == 4
MaxVerts == 1
MaxWeight == 5
MaxBoneId == 1
MaxCalls == 5
MaxMeshVerts == 2
MaxMeshBones == 2
MaxIndices == 3

\* ---------------------------------------------------------------- units
\* the threshold 1e-6f of NormalizeWeights, in weight units
EpsUnits == 1
\* 1.0f in weight units
UnitsPerOne == 1000000
\* 1 / G_SCALE_FACTOR: a position p is written as the fraction <<p, ScaleDen>>
ScaleDen == 100

Names == 1..MaxNames

\* ---------------------------------------------------------------- state
VARIABLES
    pc,             \* position of the run
    meshes,         \* scene->mMeshes: meshes[i].mBones = the bone names of mesh i - 1
    nodes,          \* scene->mRootNode tree: nodes[i] = [mName, mParent], 0 = no parent
    tempBoneMap,    \* main: name -> original id (the BoneTable)
    tempBoneCounter,\* main
    scanned,        \* main: bone records the registration loop has visited
    finalBoneMap,   \* main: name -> final id
    meshIdx,        \* main: meshes handed to processMesh so far
    meshFile,       \* the vertices written by the latest processMesh call
    v,              \* one Vertex under AddBoneWeight / NormalizeWeights
    calls,          \* the weights passed to AddBoneWeight for v: weight -> count
    unsortedBones,  \* processSkeleton: TempBoneInfo in boneMap (name) order
    sortedBones,    \* processSkeleton: TempBoneInfo in placement order
    newIndices,     \* processSkeleton: original id -> position
    added,          \* processSkeleton: original id -> placed
    addedCount,     \* processSkeleton
    passCount,      \* number of completed scans of the while loop
    lastPlaced,     \* bones placed by the last completed scan
    skeleton,       \* j["bones"] of skeleton.json: [id, name, parentId]
    mesh,           \* processMesh: the aiMesh it was called with, <<>> before any call
    vertices,       \* processMesh: std::vector<Vertex> vertices
    boneI,          \* processMesh: the bone loop's bi
    weightI,        \* processMesh: the weight loop's wi
    normI,          \* processMesh: vertices the NormalizeWeights loop has finished
    out             \* processMesh: the words written to the .mesh file

skelLocals == <<unsortedBones, sortedBones, newIndices, added, addedCount,
                passCount, lastPlaced>>
mainVars == <<meshes, tempBoneCounter, scanned, meshIdx, meshFile>>
vertVars == <<v, calls>>
meshLocals == <<mesh, vertices, boneI, weightI, normI, out>>

vars == <<pc, meshes, nodes, tempBoneMap, tempBoneCounter, scanned, finalBoneMap,
          meshIdx, meshFile, v, calls, unsortedBones, sortedBones, newIndices, added,
          addedCount, passCount, lastPlaced, skeleton, mesh, vertices, boneI, weightI,
          normI, out>>

\* ---------------------------------------------------------------- helpers
EmptyMap == [x \in {} |-> 0]

Put(map, k, val) == [x \in (DOMAIN map) \cup {k} |-> IF x = k THEN val ELSE map[x]]

RECURSIVE SortedSeq(_)
SortedSeq(S) ==
    IF S = {} THEN <<>>
    ELSE LET m == CHOOSE x \in S : \A y \in S : x <= y
         IN <<m>> \o SortedSeq(S \ {m})

\* ---------------------------------------------------------------- Vertex
\* a float weight is the fraction <<n, d>> of weight units; n >= 0, d > 0
Frac(n) == <<n, 1>>

LessFrac(a, b) == a[1] * b[2] < b[1] * a[2]

AddFrac(a, b) ==
    IF a[2] = b[2] THEN <<a[1] + b[1], a[2]>>
    ELSE <<a[1] * b[2] + b[1] * a[2], a[2] * b[2]>>

\* variant: the bone ids start at 0, as a value-initialised array would
DefaultVertex_ZeroIds == [boneIDs |-> <<0, 0, 0, 0>>,
                          weights |-> <<Frac(0), Frac(0), Frac(0), Frac(0)>>]

\* int boneIDs[4]{ -1,-1,-1,-1 }; float weights[4]{ 0,0,0,0 };
DefaultVertex == [boneIDs |-> <<-1, -1, -1, -1>>,
                  weights |-> <<Frac(0), Frac(0), Frac(0), Frac(0)>>]

\* variant: the first loop runs from slot 3 down to slot 0
FirstEmpty_Highest(vx) ==
    IF \E i \in 1..4 : vx.boneIDs[i] < 0
    THEN CHOOSE i \in 1..4 : vx.boneIDs[i] < 0 /\ \A j \in (i + 1)..4 : vx.boneIDs[j] >= 0
    ELSE 0

\* the first loop of AddBoneWeight: the first slot with boneIDs[i] < 0, or 0
FirstEmpty(vx) ==
    IF \E i \in 1..4 : vx.boneIDs[i] < 0
    THEN CHOOSE i \in 1..4 : vx.boneIDs[i] < 0 /\ \A j \in 1..(i - 1) : vx.boneIDs[j] >= 0
    ELSE 0

RECURSIVE MinIdxFrom(_, _, _)
\* the second loop: minIdx moves to i only when weights[i] < weights[minIdx]
MinIdxFrom(vx, i, minIdx) ==
    IF i > 4 THEN minIdx
    ELSE MinIdxFrom(vx, i + 1,
                    IF LessFrac(vx.weights[i], vx.weights[minIdx]) THEN i ELSE minIdx)

\* variant: the slot with the largest weight is the one replaced
AddBoneWeight_EvictMax(vx, boneId, w) ==
    LET e == FirstEmpty(vx)
        maxIdx == CHOOSE i \in 1..4 : \A j \in 1..4 : ~LessFrac(vx.weights[i], vx.weights[j])
    IN IF e # 0
       THEN [boneIDs |-> [vx.boneIDs EXCEPT ![e] = boneId],
             weights |-> [vx.weights EXCEPT ![e] = w]]
       ELSE IF LessFrac(vx.weights[maxIdx], w)
            THEN [boneIDs |-> [vx.boneIDs EXCEPT ![maxIdx] = boneId],
                  weights |-> [vx.weights EXCEPT ![maxIdx] = w]]
            ELSE vx

\* variant: among equal minimum weights the last slot is the one replaced
AddBoneWeight_LastMin(vx, boneId, w) ==
    LET e == FirstEmpty(vx)
        minIdx == CHOOSE i \in 1..4 :
                    /\ \A j \in 1..4 : ~LessFrac(vx.weights[j], vx.weights[i])
                    /\ \A j \in (i + 1)..4 : LessFrac(vx.weights[i], vx.weights[j])
    IN IF e # 0
       THEN [boneIDs |-> [vx.boneIDs EXCEPT ![e] = boneId],
             weights |-> [vx.weights EXCEPT ![e] = w]]
       ELSE IF LessFrac(vx.weights[minIdx], w)
            THEN [boneIDs |-> [vx.boneIDs EXCEPT ![minIdx] = boneId],
                  weights |-> [vx.weights EXCEPT ![minIdx] = w]]
            ELSE vx

AddBoneWeight(vx, boneId, w) ==
    LET e == FirstEmpty(vx)
        minIdx == MinIdxFrom(vx, 2, 1)
    IN IF e # 0
       THEN [boneIDs |-> [vx.boneIDs EXCEPT ![e] = boneId],
             weights |-> [vx.weights EXCEPT ![e] = w]]
       ELSE IF LessFrac(vx.weights[minIdx], w)
            THEN [boneIDs |-> [vx.boneIDs EXCEPT ![minIdx] = boneId],
                  weights |-> [vx.weights EXCEPT ![minIdx] = w]]
            ELSE vx

\* float s = weights[0] + weights[1] + weights[2] + weights[3]
WeightSum(vx) ==
    AddFrac(AddFrac(AddFrac(vx.weights[1], vx.weights[2]), vx.weights[3]), vx.weights[4])

\* if (s > 1e-6f) every weight is multiplied by 1.0f / s; else nothing is written
NormalizeWeights(vx) ==
    LET s == WeightSum(vx)
    IN IF LessFrac(Frac(EpsUnits), s)
       THEN [vx EXCEPT !.weights =
                [i \in 1..4 |-> <<vx.weights[i][1] * UnitsPerOne * s[2],
                                  vx.weights[i][2] * s[1]>>]]
       ELSE vx

\* ---------------------------------------------------------------- node tree
\* mChildren of node n, in order
Children(tree, n) == SortedSeq({c \in DOMAIN tree : tree[c].mParent = n})

RECURSIVE BuildNodeMap(_, _, _)
RECURSIVE BuildChildren(_, _, _, _)
\* map[n->mName] = n; then every child in order (a later node of the same name wins)
BuildNodeMap(tree, n, map) ==
    IF n = 0 THEN map
    ELSE BuildChildren(tree, n, 1, Put(map, tree[n].mName, n))

BuildChildren(tree, n, i, map) ==
    IF i > Len(Children(tree, n)) THEN map
    ELSE BuildChildren(tree, n, i + 1, BuildNodeMap(tree, Children(tree, n)[i], map))

RootNode(tree) == IF Len(tree) = 0 THEN 0 ELSE 1

\* ---------------------------------------------------------------- processSkeleton
\* variant: a non-bone parent is skipped and the grandparent is taken
ResolveParent_SkipNonBone(name, boneMap, nodeMap, tree) ==
    IF name \in DOMAIN nodeMap
    THEN LET p == tree[nodeMap[name]].mParent
         IN IF p # 0
            THEN IF tree[p].mName \in DOMAIN boneMap
                 THEN boneMap[tree[p].mName]
                 ELSE LET g == tree[p].mParent
                      IN IF g # 0 /\ tree[g].mName \in DOMAIN boneMap
                         THEN boneMap[tree[g].mName]
                         ELSE -1
            ELSE -1
    ELSE -1

\* the parentId computed for one boneMap entry
ResolveParent(name, boneMap, nodeMap, tree) ==
    IF name \in DOMAIN nodeMap
    THEN LET p == tree[nodeMap[name]].mParent
         IN IF p # 0
            THEN IF tree[p].mName \in DOMAIN boneMap
                 THEN boneMap[tree[p].mName]
                 ELSE -1
            ELSE -1
    ELSE -1

\* variant: the entries are taken in original-id order instead of key order
BuildUnsorted_ByOriginalId(boneMap, tree) ==
    LET nodeMap == BuildNodeMap(tree, RootNode(tree), EmptyMap)
        nameOf(k) == CHOOSE nm \in DOMAIN boneMap : boneMap[nm] = k
    IN [i \in 1..Cardinality(DOMAIN boneMap) |->
            [name |-> nameOf(i - 1),
             originalIndex |-> i - 1,
             parentIndex |-> ResolveParent(nameOf(i - 1), boneMap, nodeMap, tree)]]

\* for (const auto& kv : boneMap): one TempBoneInfo per entry, in key order
BuildUnsorted(boneMap, tree) ==
    LET nodeMap == BuildNodeMap(tree, RootNode(tree), EmptyMap)
        keys == SortedSeq(DOMAIN boneMap)
    IN [i \in 1..Len(keys) |->
            [name |-> keys[i],
             originalIndex |-> boneMap[keys[i]],
             parentIndex |-> ResolveParent(keys[i], boneMap, nodeMap, tree)]]

\* the loop state before the first scan
SortStart(n) ==
    [sortedBones |-> <<>>,
     newIndices |-> [k \in 0..(n - 1) |-> 0],
     added |-> [k \in 0..(n - 1) |-> FALSE],
     addedCount |-> 0]

\* variant: the parent test is missing, every unplaced bone is placed
VisitBone_NoParentCheck(bone, st) ==
    IF st.added[bone.originalIndex] THEN st
    ELSE [sortedBones |-> Append(st.sortedBones, bone),
          newIndices |-> [st.newIndices EXCEPT ![bone.originalIndex] = st.addedCount],
          added |-> [st.added EXCEPT ![bone.originalIndex] = TRUE],
          addedCount |-> st.addedCount + 1]

\* variant: a placed bone is not marked as added
VisitBone_NoAddedMark(bone, st) ==
    IF st.added[bone.originalIndex] THEN st
    ELSE IF bone.parentIndex = -1 \/ st.added[bone.parentIndex]
         THEN [sortedBones |-> Append(st.sortedBones, bone),
               newIndices |-> [st.newIndices EXCEPT ![bone.originalIndex] = st.addedCount],
               added |-> st.added,
               addedCount |-> st.addedCount + 1]
         ELSE st

\* the body of the inner for loop for one bone
VisitBone(bone, st) ==
    IF st.added[bone.originalIndex] THEN st
    ELSE IF bone.parentIndex = -1 \/ st.added[bone.parentIndex]
         THEN [sortedBones |-> Append(st.sortedBones, bone),
               newIndices |-> [st.newIndices EXCEPT ![bone.originalIndex] = st.addedCount],
               added |-> [st.added EXCEPT ![bone.originalIndex] = TRUE],
               addedCount |-> st.addedCount + 1]
         ELSE st

RECURSIVE ScanFrom(_, _, _)
\* for (const auto& bone : unsortedBones), from position i
ScanFrom(unsorted, i, st) ==
    IF i > Len(unsorted) THEN st
    ELSE ScanFrom(unsorted, i + 1, VisitBone(unsorted[i], st))

\* variant: the scan runs from the last entry to the first
ScanPass_Backwards(unsorted, st) ==
    ScanFrom([i \in DOMAIN unsorted |-> unsorted[Len(unsorted) + 1 - i]], 1, st)

\* one iteration of the while loop
ScanPass(unsorted, st) == ScanFrom(unsorted, 1, st)

\* variant: the map keeps the original id instead of the position
FinalMapOf_OriginalId(sorted) ==
    [nm \in {sorted[i].name : i \in DOMAIN sorted} |->
        sorted[CHOOSE i \in DOMAIN sorted : sorted[i].name = nm].originalIndex]

\* the emit loop: finalBoneMap[bone.name] = i
FinalMapOf(sorted) ==
    [nm \in {sorted[i].name : i \in DOMAIN sorted} |->
        (CHOOSE i \in DOMAIN sorted :
            sorted[i].name = nm /\ \A k \in DOMAIN sorted : sorted[k].name = nm => k <= i) - 1]

\* variant: the parent id is written as resolved, without the remap
JsonBones_NoRemap(sorted, indices) ==
    [i \in DOMAIN sorted |->
        [id |-> i - 1,
         name |-> sorted[i].name,
         parentId |-> sorted[i].parentIndex]]

\* the emit loop: one json entry per sorted bone, parentIndex remapped through newIndices
JsonBones(sorted, indices) ==
    [i \in DOMAIN sorted |->
        [id |-> i - 1,
         name |-> sorted[i].name,
         parentId |-> IF sorted[i].parentIndex # -1
                      THEN indices[sorted[i].parentIndex]
                      ELSE -1]]

RECURSIVE SortLoop(_, _)
\* the while loop, run to its end; a scan that changes nothing repeats forever
SortLoop(unsorted, st) ==
    IF st.addedCount >= Len(unsorted) THEN [hang |-> FALSE, st |-> st]
    ELSE LET nx == ScanPass(unsorted, st)
         IN IF nx = st THEN [hang |-> TRUE, st |-> st]
            ELSE SortLoop(unsorted, nx)

\* processSkeleton as a function of its arguments: what it returns, if it returns
RunSkeleton(boneMap, tree) ==
    IF DOMAIN boneMap = {}
    THEN [hang |-> FALSE, finalBoneMap |-> EmptyMap, skeleton |-> <<>>]
    ELSE LET r == SortLoop(BuildUnsorted(boneMap, tree),
                           SortStart(Cardinality(DOMAIN boneMap)))
         IN IF r.hang
            THEN [hang |-> TRUE, finalBoneMap |-> EmptyMap, skeleton |-> <<>>]
            ELSE [hang |-> FALSE,
                  finalBoneMap |-> FinalMapOf(r.st.sortedBones),
                  skeleton |-> JsonBones(r.st.sortedBones, r.st.newIndices)]

\* ---------------------------------------------------------------- inputs
TreesOf(n) ==
    {t \in [1..n -> [mName : Names, mParent : 0..(n - 1)]] :
        \A i \in 1..n : IF i = 1 THEN t[i].mParent = 0
                        ELSE t[i].mParent >= 1 /\ t[i].mParent < i}

Trees == UNION {TreesOf(n) : n \in 0..MaxNodes}

\* what the registration loop of main can leave: an injective map onto 0..N-1
BoneTables ==
    UNION {{m \in [S -> 0..(Cardinality(S) - 1)] :
                \A a, b \in S : a # b => m[a] # m[b]} : S \in SUBSET Names}

\* ---------------------------------------------------------------- processSkeleton, step by step
\* no aiMesh: no vertex, no bone, no face
NoMesh == [mNumVertices |-> 0, mVertices |-> <<>>, mBones |-> <<>>, mFaces |-> <<>>,
           mMaterialIndex |-> 0]

\* the locals of processMesh before a call
InitMeshLocals ==
    /\ vertices = <<>>
    /\ boneI = 0
    /\ weightI = 0
    /\ normI = 0
    /\ out = <<>>

InitLocals ==
    /\ unsortedBones = <<>>
    /\ sortedBones = <<>>
    /\ newIndices = <<>>
    /\ added = <<>>
    /\ addedCount = 0
    /\ passCount = 0
    /\ lastPlaced = 0
    /\ skeleton = <<>>
    /\ finalBoneMap = EmptyMap
    /\ meshIdx = 0
    /\ meshFile = <<>>
    /\ mesh = <<>>
    /\ InitMeshLocals

InitSkeleton ==
    /\ pc = "skeleton"
    /\ nodes \in Trees
    /\ tempBoneMap \in BoneTables
    /\ tempBoneCounter = Cardinality(DOMAIN tempBoneMap)
    /\ meshes = <<>>
    /\ scanned = 0
    /\ v = DefaultVertex
    /\ calls = EmptyBag
    /\ InitLocals

\* if (boneMap.empty()) { write an empty bones array; return; }
SkeletonEmpty ==
    /\ pc = "skeleton"
    /\ DOMAIN tempBoneMap = {}
    /\ skeleton' = <<>>
    /\ pc' = "done"
    /\ UNCHANGED <<nodes, tempBoneMap, finalBoneMap, skelLocals, mainVars, vertVars, meshLocals>>

\* BuildNodeMap, the parent resolution loop, and the sort's initial state
ResolveParents ==
    /\ pc = "skeleton"
    /\ DOMAIN tempBoneMap # {}
    /\ unsortedBones' = BuildUnsorted(tempBoneMap, nodes)
    /\ LET st == SortStart(Cardinality(DOMAIN tempBoneMap))
       IN /\ sortedBones' = st.sortedBones
          /\ newIndices' = st.newIndices
          /\ added' = st.added
          /\ addedCount' = st.addedCount
    /\ pc' = "sort"
    /\ UNCHANGED <<nodes, tempBoneMap, finalBoneMap, passCount, lastPlaced, skeleton,
                   mainVars, vertVars, meshLocals>>

\* while (addedCount < unsortedBones.size()) { one full scan }
SortPass ==
    /\ pc = "sort"
    /\ addedCount < Len(unsortedBones)
    /\ passCount < MaxPasses
    /\ LET st == ScanPass(unsortedBones,
                          [sortedBones |-> sortedBones, newIndices |-> newIndices,
                           added |-> added, addedCount |-> addedCount])
       IN /\ sortedBones' = st.sortedBones
          /\ newIndices' = st.newIndices
          /\ added' = st.added
          /\ addedCount' = st.addedCount
          /\ lastPlaced' = st.addedCount - addedCount
    /\ passCount' = passCount + 1
    /\ UNCHANGED <<pc, nodes, tempBoneMap, finalBoneMap, unsortedBones, skeleton,
                   mainVars, vertVars, meshLocals>>

\* the loop has ended: fill finalBoneMap, remap parents, write skeleton.json
EmitSkeleton ==
    /\ pc = "sort"
    /\ addedCount >= Len(unsortedBones)
    /\ finalBoneMap' = FinalMapOf(sortedBones)
    /\ skeleton' = JsonBones(sortedBones, newIndices)
    /\ pc' = "done"
    /\ UNCHANGED <<nodes, tempBoneMap, skelLocals, mainVars, vertVars, meshLocals>>

NextSkeleton == SkeletonEmpty \/ ResolveParents \/ SortPass \/ EmitSkeleton

SpecSkeleton == InitSkeleton /\ [][NextSkeleton]_vars

\* ---------------------------------------------------------------- main
Weights == 0..MaxWeight

\* variant: every occurrence of a name takes a fresh id
RegisterName_Always(map, counter, name) ==
    [map |-> Put(map, name, counter), counter |-> counter + 1]

\* if (tempBoneMap.find(name) == end) tempBoneMap[name] = tempBoneCounter++;
RegisterName(map, counter, name) ==
    IF name \notin DOMAIN map
    THEN [map |-> Put(map, name, counter), counter |-> counter + 1]
    ELSE [map |-> map, counter |-> counter]

RECURSIVE BoneScan(_)
\* the bone names in the order the two nested loops visit them
BoneScan(ms) ==
    IF Len(ms) = 0 THEN <<>>
    ELSE ms[1].mBones \o BoneScan(Tail(ms))

RECURSIVE BindWeights(_, _, _, _)
\* for (wi ...) AddBoneWeight(vertices[mVertexId], finalId, mWeight), from entry wi
BindWeights(verts, finalId, ws, wi) ==
    IF wi > Len(ws) THEN verts
    ELSE BindWeights(
            [verts EXCEPT ![ws[wi].mVertexId + 1] =
                AddBoneWeight(verts[ws[wi].mVertexId + 1], finalId, Frac(ws[wi].mWeight))],
            finalId, ws, wi + 1)

RECURSIVE BindBones_OriginalId(_, _, _, _, _)
\* variant: the id bound to the vertex is the BoneTable id, not the final id
BindBones_OriginalId(verts, bones, infl, fmap, bi) ==
    IF bi > Len(bones) THEN verts
    ELSE BindBones_OriginalId(
            IF bones[bi] \in DOMAIN fmap
            THEN BindWeights(verts, tempBoneMap[bones[bi]], infl[bi], 1)
            ELSE verts,
            bones, infl, fmap, bi + 1)

RECURSIVE BindBones(_, _, _, _, _)
\* for (bi ...) if the bone's name is in finalBoneMap, bind its weights; from bone bi
BindBones(verts, bones, infl, fmap, bi) ==
    IF bi > Len(bones) THEN verts
    ELSE BindBones(
            IF bones[bi] \in DOMAIN fmap
            THEN BindWeights(verts, fmap[bones[bi]], infl[bi], 1)
            ELSE verts,
            bones, infl, fmap, bi + 1)

\* the vertices processMesh writes for a mesh of nv vertices
MeshVertices(bones, nv, infl, fmap) ==
    LET bound == BindBones([i \in 1..nv |-> DefaultVertex], bones, infl, fmap, 1)
    IN [i \in 1..nv |-> NormalizeWeights(bound[i])]

\* ---------------------------------------------------------------- scene inputs
BoneLists(k) == UNION {[1..n -> Names] : n \in 0..k}

RECURSIVE MeshListsOf(_, _)
\* m meshes holding at most k bone records together
MeshListsOf(m, k) ==
    IF m = 0 THEN {<<>>}
    ELSE UNION {{<<[mBones |-> b]>> \o rest : rest \in MeshListsOf(m - 1, k - Len(b))} :
                    b \in BoneLists(k)}

\* the mesh lists main is run on, and the longer ones its registration loop is run on
MeshLists == UNION {MeshListsOf(m, MaxBoneRecs) : m \in 0..MaxMeshes}

ScanLists == UNION {MeshListsOf(m, MaxScan) : m \in 0..MaxMeshes}

\* the node trees main is run on
SceneTrees == UNION {TreesOf(n) : n \in 0..(MaxNodes - 1)}

\* the weights main is run on: the threshold and a large one
SceneWeights == {EpsUnits, MaxWeight}

\* mWeights of one bone of a mesh of nv vertices: no entry or one
WeightLists(nv) ==
    {<<>>} \cup {<<w>> : w \in [mVertexId : 0..(nv - 1), mWeight : SceneWeights]}

\* ---------------------------------------------------------------- main, step by step
Init ==
    /\ pc = "register"
    /\ meshes \in MeshLists
    /\ nodes = <<>>
    /\ tempBoneMap = EmptyMap
    /\ tempBoneCounter = 0
    /\ scanned = 0
    /\ v = DefaultVertex
    /\ calls = EmptyBag
    /\ InitLocals

\* one iteration of the inner registration loop
RegisterBone ==
    /\ pc = "register"
    /\ scanned < Len(BoneScan(meshes))
    /\ LET r == RegisterName(tempBoneMap, tempBoneCounter, BoneScan(meshes)[scanned + 1])
       IN /\ tempBoneMap' = r.map
          /\ tempBoneCounter' = r.counter
    /\ scanned' = scanned + 1
    /\ UNCHANGED <<pc, meshes, nodes, finalBoneMap, meshIdx, meshFile, skelLocals,
                   skeleton, vertVars, meshLocals>>

\* variant: processSkeleton is called while the registration loop is still running
ProcessSkeleton_Early ==
    /\ pc = "register"
    /\ scanned <= Len(BoneScan(meshes))
    /\ \E tree \in SceneTrees :
          LET r == RunSkeleton(tempBoneMap, tree)
          IN /\ ~r.hang
             /\ finalBoneMap' = r.finalBoneMap
             /\ skeleton' = r.skeleton
    /\ pc' = "mesh"
    /\ UNCHANGED <<meshes, nodes, tempBoneMap, tempBoneCounter, scanned, meshIdx, meshFile,
                   skelLocals, vertVars, meshLocals>>

\* processSkeleton(scene, outDir, tempBoneMap, finalBoneMap) returns; the node tree
\* is read by this call alone and is drawn here
ProcessSkeleton ==
    /\ pc = "register"
    /\ scanned = Len(BoneScan(meshes))
    /\ \E tree \in SceneTrees :
          LET r == RunSkeleton(tempBoneMap, tree)
          IN /\ ~r.hang
             /\ finalBoneMap' = r.finalBoneMap
             /\ skeleton' = r.skeleton
    /\ pc' = "mesh"
    /\ UNCHANGED <<meshes, nodes, tempBoneMap, tempBoneCounter, scanned, meshIdx, meshFile,
                   skelLocals, vertVars, meshLocals>>

\* processSkeleton never leaves its while loop
ProcessSkeletonSpins ==
    /\ pc = "register"
    /\ scanned = Len(BoneScan(meshes))
    /\ \E tree \in SceneTrees : RunSkeleton(tempBoneMap, tree).hang
    /\ pc' = "spin"
    /\ UNCHANGED <<meshes, nodes, tempBoneMap, tempBoneCounter, scanned, finalBoneMap,
                   meshIdx, meshFile, skelLocals, skeleton, vertVars, meshLocals>>

\* processMesh(i, scene->mMeshes[i], outDir, finalBoneMap); the vertex count and the
\* weights of the mesh are read by this call alone and are drawn here
ProcessMesh ==
    /\ pc = "mesh"
    /\ meshIdx < Len(meshes)
    /\ LET bones == meshes[meshIdx + 1].mBones
       IN \E nv \in 0..MaxVerts :
            \E infl \in [1..Len(bones) -> WeightLists(nv)] :
                /\ meshFile' = MeshVertices(bones, nv, infl, finalBoneMap)
                /\ mesh' = [NoMesh EXCEPT
                                !.mNumVertices = nv,
                                !.mVertices = [i \in 1..nv |-> 0],
                                !.mBones = [b \in 1..Len(bones) |->
                                              [mName |-> bones[b], mWeights |-> infl[b]]]]
    /\ meshIdx' = meshIdx + 1
    /\ UNCHANGED <<pc, meshes, nodes, tempBoneMap, tempBoneCounter, scanned, finalBoneMap,
                   skelLocals, skeleton, vertVars, vertices, boneI, weightI,
                   normI, out>>

\* every mesh is written; the vertex buffer of the last call is gone
Finish ==
    /\ pc = "mesh"
    /\ meshIdx = Len(meshes)
    /\ pc' = "done"
    /\ meshFile' = <<>>
    /\ mesh' = <<>>
    /\ UNCHANGED <<meshes, nodes, tempBoneMap, tempBoneCounter, scanned, finalBoneMap,
                   meshIdx, skelLocals, skeleton, vertVars, vertices, boneI, weightI,
                   normI, out>>

Next == RegisterBone \/ ProcessSkeleton \/ ProcessSkeletonSpins \/ ProcessMesh \/ Finish

Spec == Init /\ [][Next]_vars

\* ---------------------------------------------------------------- the variant src/unnamed/part_000
\* mWeights of one bone as the variant accepts them: the vertex id may be past the
\* last vertex and the weight may be 0
VariantWeightLists(nv) ==
    {<<>>} \cup {<<w>> : w \in [mVertexId : 0..nv, mWeight : {0, MaxWeight}]}

RECURSIVE VariantBindWeights(_, _, _, _)
\* if (vId < vertices.size() && w > 0.0f) AddBoneWeight(vertices[vId], (int)id, w)
VariantBindWeights(verts, id, ws, w) ==
    IF w > Len(ws) THEN verts
    ELSE VariantBindWeights(
            IF ws[w].mVertexId < Len(verts) /\ ws[w].mWeight > 0
            THEN [verts EXCEPT ![ws[w].mVertexId + 1] =
                    AddBoneWeight(@, id, Frac(ws[w].mWeight))]
            ELSE verts,
            id, ws, w + 1)

RECURSIVE VariantBindBones(_, _, _, _)
\* the bone loop of the variant's processMesh: register the name if it is new, then
\* bind its weights under the BoneTable id; st = [verts, map, counter]
VariantBindBones(st, bones, infl, b) ==
    IF b > Len(bones) THEN st
    ELSE LET r == RegisterName(st.map, st.counter, bones[b])
         IN VariantBindBones(
                [verts |-> VariantBindWeights(st.verts, r.map[bones[b]], infl[b], 1),
                 map |-> r.map,
                 counter |-> r.counter],
                bones, infl, b + 1)

\* the variant's processMesh: the vertices it writes and the boneMap it leaves
VariantMesh(bones, nv, infl, map, counter) ==
    LET r == VariantBindBones([verts |-> [i \in 1..nv |-> DefaultVertex],
                               map |-> map, counter |-> counter], bones, infl, 1)
    IN [verts |-> [i \in 1..nv |-> NormalizeWeights(r.verts[i])],
        map |-> r.map,
        counter |-> r.counter]

\* the variant's main: boneMap (tempBoneMap) and boneCounter (tempBoneCounter) start empty
InitVariant ==
    /\ pc = "v_mesh"
    /\ meshes \in MeshLists
    /\ nodes = <<>>
    /\ tempBoneMap = EmptyMap
    /\ tempBoneCounter = 0
    /\ scanned = 0
    /\ v = DefaultVertex
    /\ calls = EmptyBag
    /\ InitLocals

\* processMesh(i, scene->mMeshes[i], outDir, boneMap, boneCounter)
VariantProcessMesh ==
    /\ pc = "v_mesh"
    /\ meshIdx < Len(meshes)
    /\ LET bones == meshes[meshIdx + 1].mBones
       IN \E nv \in 0..MaxVerts :
            \E infl \in [1..Len(bones) -> VariantWeightLists(nv)] :
                LET r == VariantMesh(bones, nv, infl, tempBoneMap, tempBoneCounter)
                IN /\ meshFile' = r.verts
                   /\ tempBoneMap' = r.map
                   /\ tempBoneCounter' = r.counter
                   /\ mesh' = [NoMesh EXCEPT
                                   !.mNumVertices = nv,
                                   !.mVertices = [i \in 1..nv |-> 0],
                                   !.mBones = [b \in 1..Len(bones) |->
                                                 [mName |-> bones[b], mWeights |-> infl[b]]]]
    /\ meshIdx' = meshIdx + 1
    /\ UNCHANGED <<pc, meshes, nodes, scanned, finalBoneMap, skelLocals, skeleton, vertVars,
                   vertices, boneI, weightI, normI, out>>

\* processSkeleton(scene, outDir, boneMap) returns, after the last mesh; the mesh
\* files stay as they were written
VariantProcessSkeleton ==
    /\ pc = "v_mesh"
    /\ meshIdx = Len(meshes)
    /\ \E tree \in SceneTrees :
          LET r == RunSkeleton(tempBoneMap, tree)
          IN /\ ~r.hang
             /\ skeleton' = r.skeleton
    /\ pc' = "v_done"
    /\ UNCHANGED <<meshes, nodes, tempBoneMap, tempBoneCounter, scanned, finalBoneMap,
                   meshIdx, meshFile, skelLocals, vertVars, meshLocals>>

\* the variant's processSkeleton never leaves its while loop
VariantSkeletonSpins ==
    /\ pc = "v_mesh"
    /\ meshIdx = Len(meshes)
    /\ \E tree \in SceneTrees : RunSkeleton(tempBoneMap, tree).hang
    /\ pc' = "v_spin"
    /\ UNCHANGED <<meshes, nodes, tempBoneMap, tempBoneCounter, scanned, finalBoneMap,
                   meshIdx, meshFile, skelLocals, skeleton, vertVars, meshLocals>>

NextVariant == VariantProcessMesh \/ VariantProcessSkeleton \/ VariantSkeletonSpins

SpecVariant == InitVariant /\ [][NextVariant]_vars

\* ---------------------------------------------------------------- offset matrices
\* an aiMatrix4x4 is [lin, trans]: lin names its upper-left block and bottom row
\* (0 = those of the identity), trans is its translation column a4 = b4 = c4;
\* a default-constructed aiMatrix4x4 is the identity
IdentityMatrix == [lin |-> 0, trans |-> 0]

\* the mOffsetMatrix values of the scenes
OffsetMatrices == {IdentityMatrix, [lin |-> 1, trans |-> 100], [lin |-> 2, trans |-> 250]}

RECURSIVE OffsetScan(_)
\* the offset matrices of the bone records in the order the two nested loops visit them
OffsetScan(ms) ==
    IF Len(ms) = 0 THEN <<>>
    ELSE ms[1].mOffsetMatrix \o OffsetScan(Tail(ms))

RECURSIVE FindBoneOffset_LastMatch(_, _, _, _)
\* variant: the scan goes on after a match, the last record of the name wins
FindBoneOffset_LastMatch(ms, name, outM, i) ==
    IF i > Len(BoneScan(ms)) THEN [found |-> FALSE, outM |-> outM]
    ELSE LET rest == FindBoneOffset_LastMatch(ms, name, outM, i + 1)
         IN IF rest.found THEN rest
            ELSE IF BoneScan(ms)[i] = name
                 THEN [found |-> TRUE, outM |-> OffsetScan(ms)[i]]
                 ELSE rest

RECURSIVE FindBoneOffset(_, _, _, _)
\* from record i on: at the first record of that name, out = its mOffsetMatrix and
\* return true; with none, out is left as it was and false is returned
FindBoneOffset(ms, name, outM, i) ==
    IF i > Len(BoneScan(ms)) THEN [found |-> FALSE, outM |-> outM]
    ELSE IF BoneScan(ms)[i] = name
         THEN [found |-> TRUE, outM |-> OffsetScan(ms)[i]]
         ELSE FindBoneOffset(ms, name, outM, i + 1)

\* aiMatrix4x4 off; FindBoneOffset(scene, kv.first, off);
OffsetOf(ms, name) == FindBoneOffset(ms, name, IdentityMatrix, 1).outM

\* the TempBoneInfo list with the offsetMatrix field filled
WithOffsets(unsorted, ms) ==
    [i \in DOMAIN unsorted |->
        [name |-> unsorted[i].name,
         originalIndex |-> unsorted[i].originalIndex,
         parentIndex |-> unsorted[i].parentIndex,
         offsetMatrix |-> OffsetOf(ms, unsorted[i].name)]]

\* finalOffsetMatrix: a4, b4, c4 multiplied by G_SCALE_FACTOR, then MatrixToJson
JsonOffset(m) == [lin |-> m.lin, trans |-> <<m.trans, ScaleDen>>]

\* the json entries with their offset
JsonBonesWithOffsets(sorted, indices) ==
    [i \in DOMAIN sorted |->
        [id |-> JsonBones(sorted, indices)[i].id,
         name |-> JsonBones(sorted, indices)[i].name,
         parentId |-> JsonBones(sorted, indices)[i].parentId,
         offset |-> JsonOffset(sorted[i].offsetMatrix)]]

\* bone records with an offset matrix each
RECURSIVE OffsetScenesOf(_, _)
OffsetScenesOf(m, k) ==
    IF m = 0 THEN {<<>>}
    ELSE UNION {UNION {{<<[mBones |-> b, mOffsetMatrix |-> o]>> \o rest :
                            rest \in OffsetScenesOf(m - 1, k - Len(b))} :
                        o \in [1..Len(b) -> OffsetMatrices]} :
                    b \in BoneLists(k)}

\* the scenes of at most maxM meshes
OffsetScenes(maxM) == UNION {OffsetScenesOf(m, MaxBoneRecs) : m \in 0..maxM}

\* no node at all, or one chain with the names descending from the root
OffsetTrees ==
    {<<>>, [i \in 1..MaxNames |-> [mName |-> MaxNames + 1 - i, mParent |-> i - 1]]}

InitOffset ==
    /\ pc = "register"
    /\ meshes \in OffsetScenes(MaxMeshes)
    /\ nodes \in OffsetTrees
    /\ tempBoneMap = EmptyMap
    /\ tempBoneCounter = 0
    /\ scanned = 0
    /\ v = DefaultVertex
    /\ calls = EmptyBag
    /\ InitLocals

\* processSkeleton up to its while loop, offsets included
ResolveOffsets ==
    /\ pc = "register"
    /\ scanned = Len(BoneScan(meshes))
    /\ DOMAIN tempBoneMap # {}
    /\ unsortedBones' = WithOffsets(BuildUnsorted(tempBoneMap, nodes), meshes)
    /\ LET st == SortStart(Cardinality(DOMAIN tempBoneMap))
       IN /\ sortedBones' = st.sortedBones
          /\ newIndices' = st.newIndices
          /\ added' = st.added
          /\ addedCount' = st.addedCount
    /\ pc' = "sort"
    /\ UNCHANGED <<nodes, tempBoneMap, finalBoneMap, passCount, lastPlaced, skeleton,
                   mainVars, vertVars, meshLocals>>

\* the emit loop of processSkeleton, offsets included
EmitOffsets ==
    /\ pc = "sort"
    /\ addedCount >= Len(unsortedBones)
    /\ finalBoneMap' = FinalMapOf(sortedBones)
    /\ skeleton' = JsonBonesWithOffsets(sortedBones, newIndices)
    /\ pc' = "done"
    /\ UNCHANGED <<nodes, tempBoneMap, skelLocals, mainVars, vertVars, meshLocals>>

NextOffset == RegisterBone \/ ResolveOffsets \/ SortPass \/ EmitOffsets

SpecOffset == InitOffset /\ [][NextOffset]_vars

\* ---------------------------------------------------------------- the registration loop alone
InitTable ==
    /\ pc = "register"
    /\ meshes \in ScanLists
    /\ nodes = <<>>
    /\ tempBoneMap = EmptyMap
    /\ tempBoneCounter = 0
    /\ scanned = 0
    /\ v = DefaultVertex
    /\ calls = EmptyBag
    /\ InitLocals

NextTable == RegisterBone

SpecTable == InitTable /\ [][NextTable]_vars

\* ---------------------------------------------------------------- one vertex

InitVertex ==
    /\ pc = "bind"
    /\ v = DefaultVertex
    /\ calls = EmptyBag
    /\ nodes = <<>>
    /\ tempBoneMap = EmptyMap
    /\ tempBoneCounter = 0
    /\ meshes = <<>>
    /\ scanned = 0
    /\ InitLocals

\* one AddBoneWeight(v, boneId, w) call
BindWeight ==
    /\ pc = "bind"
    /\ BagCardinality(calls) < MaxCalls
    /\ \E boneId \in 0..MaxBoneId, w \in Weights :
          /\ v' = AddBoneWeight(v, boneId, Frac(w))
          /\ calls' = calls (+) SetToBag({w})
    /\ UNCHANGED <<pc, nodes, tempBoneMap, finalBoneMap, skelLocals, skeleton, mainVars,
                   meshLocals>>

\* NormalizeWeights(v), after the last AddBoneWeight call
Normalize ==
    /\ pc = "bind"
    /\ v' = NormalizeWeights(v)
    /\ pc' = "normalized"
    /\ UNCHANGED <<calls, nodes, tempBoneMap, finalBoneMap, skelLocals, skeleton, mainVars,
                   meshLocals>>

NextVertex == BindWeight \/ Normalize

SpecVertex == InitVertex /\ [][NextVertex]_vars

\* ---------------------------------------------------------------- processMesh, step by step
\* the first loop: the scaled position, and the Vertex defaults for the skinning part
InitialVertex(pos) ==
    [position |-> <<pos, ScaleDen>>,
     boneIDs |-> DefaultVertex.boneIDs,
     weights |-> DefaultVertex.weights]

\* the skinning fields of a vertex, and a vertex with them replaced
SkinOf(vx) == [boneIDs |-> vx.boneIDs, weights |-> vx.weights]

WithSkin(vx, skin) == [vx EXCEPT !.boneIDs = skin.boneIDs, !.weights = skin.weights]

\* variant: the weights of the vertex are normalised right after the bind
BindOne_ThenNormalize(verts, vId, finalId, w) ==
    [verts EXCEPT ![vId + 1] =
        WithSkin(@, NormalizeWeights(AddBoneWeight(SkinOf(@), finalId, Frac(w))))]

\* AddBoneWeight(vertices[mVertexId], (int)finalId, mWeight)
BindOne(verts, vId, finalId, w) ==
    [verts EXCEPT ![vId + 1] = WithSkin(@, AddBoneWeight(SkinOf(@), finalId, Frac(w)))]

RECURSIVE FaceIndices_Reversed(_)
\* variant: every face's indices are pushed in reverse (the winding is flipped)
FaceIndices_Reversed(faces) ==
    IF Len(faces) = 0 THEN <<>>
    ELSE [j \in 1..Len(faces[1]) |-> faces[1][Len(faces[1]) + 1 - j]]
            \o FaceIndices_Reversed(Tail(faces))

RECURSIVE FaceIndices(_)
\* for (f ...) for (j ...) indices.push_back(mFaces[f].mIndices[j])
FaceIndices(faces) ==
    IF Len(faces) = 0 THEN <<>>
    ELSE faces[1] \o FaceIndices(Tail(faces))

\* MeshHeader header{ vertices.size(), indices.size(), mesh->mMaterialIndex }
MeshHeader(verts, idx, material) == <<Len(verts), Len(idx), material>>

\* the three out.write calls: header, vertices.data(), indices.data()
MeshFileOf(verts, idx, material) == MeshHeader(verts, idx, material) \o verts \o idx

\* mWeights of the bones of a mesh, as AddBoneWeight calls in loop order
SkinnedBones(nv) ==
    UNION {[1..n -> [mName : Names, mWeights : WeightLists(nv)]] : n \in 0..MaxMeshBones}

\* meshes of at most maxV vertices with bones and no face
SkinnedMeshes(maxV) ==
    UNION {{[NoMesh EXCEPT !.mNumVertices = nv,
                           !.mVertices = [i \in 1..nv |-> 0],
                           !.mBones = b] : b \in SkinnedBones(nv)} : nv \in 0..maxV}

\* one face: 1 to 3 indices (points, lines, triangles) into nv vertices
FacesOfSize(nv, k) == [1..k -> 0..(nv - 1)]

RECURSIVE FaceLists(_, _)
\* the face lists of at most k indices together
FaceLists(nv, k) ==
    {<<>>} \cup
    UNION {UNION {{<<f>> \o rest : rest \in FaceLists(nv, k - n)} : f \in FacesOfSize(nv, n)} :
              n \in 1..(IF k < 3 THEN k ELSE 3)}

\* mVertices: the positions ascending or descending along the vertex order
PositionLists(nv) == {[i \in 1..nv |-> i], [i \in 1..nv |-> nv + 1 - i]}

MaterialIndexes == {0, 1}

\* meshes of at most maxV vertices with faces and no bone
FacedMeshes(maxV) ==
    UNION {{[NoMesh EXCEPT !.mNumVertices = nv,
                           !.mVertices = ps,
                           !.mFaces = fs,
                           !.mMaterialIndex = mi] :
                ps \in PositionLists(nv), fs \in FaceLists(nv, MaxIndices),
                mi \in MaterialIndexes} : nv \in 0..maxV}

\* the names of the bones of a mesh
BoneNamesOf(m) == {m.mBones[b].mName : b \in DOMAIN m.mBones}

InitMesh ==
    /\ pc = "alloc"
    /\ mesh \in SkinnedMeshes(MaxMeshVerts) \cup FacedMeshes(MaxMeshVerts)
    /\ finalBoneMap \in {m \in BoneTables : DOMAIN m = BoneNamesOf(mesh)}
    /\ InitMeshLocals
    /\ meshes = <<>>
    /\ nodes = <<>>
    /\ tempBoneMap = EmptyMap
    /\ tempBoneCounter = 0
    /\ scanned = 0
    /\ meshIdx = 0
    /\ meshFile = <<>>
    /\ v = DefaultVertex
    /\ calls = EmptyBag
    /\ unsortedBones = <<>>
    /\ sortedBones = <<>>
    /\ newIndices = <<>>
    /\ added = <<>>
    /\ addedCount = 0
    /\ passCount = 0
    /\ lastPlaced = 0
    /\ skeleton = <<>>

meshFrame == <<meshes, nodes, tempBoneMap, tempBoneCounter, scanned, finalBoneMap, meshIdx,
               meshFile, skelLocals, skeleton, vertVars, mesh>>

\* std::vector<Vertex> vertices(mNumVertices) and the attribute loop
MeshAlloc ==
    /\ pc = "alloc"
    /\ vertices' = [i \in 1..mesh.mNumVertices |-> InitialVertex(mesh.mVertices[i])]
    /\ pc' = "run"
    /\ UNCHANGED <<meshFrame, boneI, weightI, normI, out>>

\* one iteration of the weight loop of a bone that finalBoneMap holds
MeshBind ==
    /\ pc = "run"
    /\ boneI < Len(mesh.mBones)
    /\ LET b == mesh.mBones[boneI + 1]
       IN /\ b.mName \in DOMAIN finalBoneMap
          /\ weightI < Len(b.mWeights)
          /\ vertices' = BindOne(vertices, b.mWeights[weightI + 1].mVertexId,
                                 finalBoneMap[b.mName], b.mWeights[weightI + 1].mWeight)
    /\ weightI' = weightI + 1
    /\ UNCHANGED <<pc, meshFrame, boneI, normI, out>>

\* the bone loop moves on: the bone is not in finalBoneMap or its weights are done
MeshNextBone ==
    /\ pc = "run"
    /\ boneI < Len(mesh.mBones)
    /\ LET b == mesh.mBones[boneI + 1]
       IN b.mName \notin DOMAIN finalBoneMap \/ weightI = Len(b.mWeights)
    /\ boneI' = boneI + 1
    /\ weightI' = 0
    /\ UNCHANGED <<pc, meshFrame, vertices, normI, out>>

\* for (auto& v : vertices) NormalizeWeights(v): one iteration
MeshNormalize ==
    /\ pc = "run"
    /\ boneI = Len(mesh.mBones)
    /\ normI < Len(vertices)
    /\ vertices' = [vertices EXCEPT ![normI + 1] = WithSkin(@, NormalizeWeights(SkinOf(@)))]
    /\ normI' = normI + 1
    /\ UNCHANGED <<pc, meshFrame, boneI, weightI, out>>

\* the index loop and the three writes
MeshWrite ==
    /\ pc = "run"
    /\ boneI = Len(mesh.mBones)
    /\ normI = Len(vertices)
    /\ out' = MeshFileOf(vertices, FaceIndices(mesh.mFaces), mesh.mMaterialIndex)
    /\ pc' = "written"
    /\ UNCHANGED <<meshFrame, vertices, boneI, weightI, normI>>

NextMesh == MeshAlloc \/ MeshBind \/ MeshNextBone \/ MeshNormalize \/ MeshWrite

SpecMesh == InitMesh /\ [][NextMesh]_vars

\* ---------------------------------------------------------------- processMesh on unvalidated records
\* mWeights as importer.ReadFile returns them: the flags hold no
\* aiProcess_ValidateDataStructure, so mVertexId is any unsigned, here up to nv
UnvalidatedWeightLists(nv) ==
    {<<>>} \cup {<<w>> : w \in [mVertexId : 0..nv, mWeight : SceneWeights]}

\* meshes of at most maxV vertices whose influence records are not validated
UnvalidatedMeshes(maxV) ==
    UNION {UNION {{[NoMesh EXCEPT !.mNumVertices = nv,
                                  !.mVertices = [i \in 1..nv |-> 0],
                                  !.mBones = b] :
                       b \in [1..n -> [mName : Names, mWeights : UnvalidatedWeightLists(nv)]]} :
                     n \in 0..MaxMeshBones} : nv \in 0..maxV}

InitUnvalidated ==
    /\ pc = "alloc"
    /\ mesh \in UnvalidatedMeshes(MaxMeshVerts)
    /\ finalBoneMap \in {m \in BoneTables : DOMAIN m = BoneNamesOf(mesh)}
    /\ InitMeshLocals
    /\ meshes = <<>>
    /\ nodes = <<>>
    /\ tempBoneMap = EmptyMap
    /\ tempBoneCounter = 0
    /\ scanned = 0
    /\ meshIdx = 0
    /\ meshFile = <<>>
    /\ v = DefaultVertex
    /\ calls = EmptyBag
    /\ unsortedBones = <<>>
    /\ sortedBones = <<>>
    /\ newIndices = <<>>
    /\ added = <<>>
    /\ addedCount = 0
    /\ passCount = 0
    /\ lastPlaced = 0
    /\ skeleton = <<>>

\* one iteration of the weight loop: vertices[mVertexId] has no bounds check, so
\* with mVertexId >= vertices.size() the behaviour is undefined: AddBoneWeight
\* reads and writes memory past the vector and the loop goes on, or the access faults
MeshBindUnchecked ==
    /\ pc = "run"
    /\ boneI < Len(mesh.mBones)
    /\ LET b == mesh.mBones[boneI + 1]
       IN /\ b.mName \in DOMAIN finalBoneMap
          /\ weightI < Len(b.mWeights)
          /\ IF b.mWeights[weightI + 1].mVertexId < Len(vertices)
             THEN /\ vertices' = BindOne(vertices, b.mWeights[weightI + 1].mVertexId,
                                         finalBoneMap[b.mName],
                                         b.mWeights[weightI + 1].mWeight)
                  /\ weightI' = weightI + 1
                  /\ pc' = pc
             ELSE \/ /\ vertices' = vertices
                     /\ weightI' = weightI + 1
                     /\ pc' = pc
                  \/ /\ vertices' = vertices
                     /\ weightI' = weightI
                     /\ pc' = "fault"
    /\ UNCHANGED <<meshFrame, boneI, normI, out>>

NextUnvalidated ==
    MeshAlloc \/ MeshBindUnchecked \/ MeshNextBone \/ MeshNormalize \/ MeshWrite

SpecUnvalidated == InitUnvalidated /\ [][NextUnvalidated]_vars

\* ---------------------------------------------------------------- properties of processSkeleton
NumBones == Cardinality(DOMAIN tempBoneMap)

NodeNames == {nodes[n].mName : n \in DOMAIN nodes}

\* the bone of unsortedBones with a given original id
BoneOfId(k) == CHOOSE i \in DOMAIN unsortedBones : unsortedBones[i].originalIndex = k

\* the resolved parent relation has a cycle: some bone is its own transitive ancestor
RECURSIVE ReachesSelf(_, _, _)
ReachesSelf(start, cur, fuel) ==
    LET p == unsortedBones[BoneOfId(cur)].parentIndex
    IN IF p = -1 \/ fuel = 0 THEN FALSE
       ELSE IF p = start THEN TRUE
       ELSE ReachesSelf(start, p, fuel - 1)

Cyclic == \E i \in DOMAIN unsortedBones :
             ReachesSelf(unsortedBones[i].originalIndex, unsortedBones[i].originalIndex,
                         Len(unsortedBones))

\* C1: when the sort has finished, every bone that has a parent has
\* parentFinalId < finalId: the parent sits at an earlier position of the list.
C1_ParentBeforeChild ==
    pc = "done" =>
        \A i \in DOMAIN skeleton :
            skeleton[i].parentId # -1 =>
                /\ skeleton[i].parentId >= 0
                /\ skeleton[i].parentId < skeleton[i].id
                /\ skeleton[i].parentId + 1 < i

\* the chain A -> B -> C registered as C, B, A comes out as A, B, C
C1_Witness ==
    /\ pc = "done"
    /\ tempBoneMap = (1 :> 2) @@ (2 :> 1) @@ (3 :> 0)
    /\ nodes = <<[mName |-> 1, mParent |-> 0], [mName |-> 2, mParent |-> 1],
                 [mName |-> 3, mParent |-> 2]>>
    /\ [i \in DOMAIN skeleton |-> skeleton[i].name] = <<1, 2, 3>>
    /\ [i \in DOMAIN skeleton |-> skeleton[i].parentId] = <<-1, 0, 1>>

\* C2: the sorted skeleton holds every registered bone exactly once, its ids are
\* exactly 0..N-1 in list order, and finalBoneMap maps each name to its position,
\* which is newIndices[originalIndex].
C2_DenseIds ==
    pc = "done" =>
        /\ Len(skeleton) = NumBones
        /\ \A nm \in DOMAIN tempBoneMap :
              Cardinality({i \in DOMAIN skeleton : skeleton[i].name = nm}) = 1
        /\ \A i \in DOMAIN skeleton : skeleton[i].id = i - 1
        /\ {skeleton[i].id : i \in DOMAIN skeleton} = 0..(NumBones - 1)
        /\ DOMAIN finalBoneMap = DOMAIN tempBoneMap
        /\ \A nm \in DOMAIN tempBoneMap :
              /\ skeleton[finalBoneMap[nm] + 1].name = nm
              /\ finalBoneMap[nm] = newIndices[tempBoneMap[nm]]

\* two bones, one absent from the node tree and one under a non-bone node,
\* both emitted, at ids that differ from their original ids
C2_Witness ==
    /\ pc = "done"
    /\ NumBones = 2
    /\ \E a, b \in DOMAIN tempBoneMap :
          /\ a \notin NodeNames
          /\ \E n \in DOMAIN nodes :
                /\ nodes[n].mName = b
                /\ nodes[n].mParent # 0
                /\ nodes[nodes[n].mParent].mName \notin DOMAIN tempBoneMap
          /\ finalBoneMap[a] # tempBoneMap[a]
    /\ Len(skeleton) = 2

\* a full scan has placed no bone while unplaced bones remain
Stalled == passCount > 0 /\ lastPlaced = 0 /\ addedCount < Len(unsortedBones)

\* C3: a cyclic parent relation is detected by the stalled pass and the run stops
\* with a fatal error instead of scanning again.
C3_StallIsFatal == (Cyclic /\ Stalled) => pc = "fatal"

\* the bone at position i of unsortedBones can be placed by the next scan as it starts
EligibleNow(i) ==
    /\ ~added[unsortedBones[i].originalIndex]
    /\ \/ unsortedBones[i].parentIndex = -1
       \/ added[unsortedBones[i].parentIndex]

\* C7 as stated: of two bones eligible in the same pass the one with the smaller
\* original id receives the smaller final id.
C7_TiesByOriginalId ==
    [][(pc = "sort" /\ passCount' = passCount + 1) =>
        \A i, j \in DOMAIN unsortedBones :
            (/\ EligibleNow(i)
             /\ EligibleNow(j)
             /\ unsortedBones[i].originalIndex < unsortedBones[j].originalIndex)
            => newIndices'[unsortedBones[i].originalIndex]
                 < newIndices'[unsortedBones[j].originalIndex]]_vars

\* C7 amended: unsortedBones is in ascending name order, a scan places every bone
\* that is eligible as it starts, and of two such bones the one with the smaller
\* name receives the smaller final id.
C7_TiesByName ==
    [][(pc = "sort" /\ passCount' = passCount + 1) =>
        /\ \A i, j \in DOMAIN unsortedBones :
              i < j => unsortedBones[i].name < unsortedBones[j].name
        /\ \A i, j \in DOMAIN unsortedBones :
              (/\ EligibleNow(i)
               /\ EligibleNow(j)
               /\ unsortedBones[i].name < unsortedBones[j].name)
              => /\ added'[unsortedBones[i].originalIndex]
                 /\ added'[unsortedBones[j].originalIndex]
                 /\ newIndices'[unsortedBones[i].originalIndex]
                      < newIndices'[unsortedBones[j].originalIndex]]_vars

\* two roots registered against their name order: the smaller name comes first
C7_Witness ==
    /\ pc = "done"
    /\ \E a, b \in DOMAIN tempBoneMap :
          /\ a < b
          /\ tempBoneMap[a] > tempBoneMap[b]
          /\ skeleton[finalBoneMap[a] + 1].parentId = -1
          /\ skeleton[finalBoneMap[b] + 1].parentId = -1
          /\ finalBoneMap[a] < finalBoneMap[b]

\* every assignment of original ids to the registered names
Relabelings == {m \in BoneTables : DOMAIN m = DOMAIN tempBoneMap}

\* C8: the name -> finalId map and every bone's parentFinalId are the same for
\* every assignment of original ids to the same names over the same node tree.
C8_IndependentOfOriginalIds ==
    pc = "done" =>
        \A m \in Relabelings :
            LET r == RunSkeleton(m, nodes)
            IN /\ ~r.hang
               /\ r.finalBoneMap = finalBoneMap
               /\ r.skeleton = skeleton

\* three bones with a parent link, registered in an order that is not the name order
C8_Witness ==
    /\ pc = "done"
    /\ NumBones = 3
    /\ tempBoneMap[1] > tempBoneMap[2]
    /\ \E i \in DOMAIN skeleton : skeleton[i].parentId # -1
    /\ \E i \in DOMAIN skeleton : skeleton[i].parentId = -1 /\ i > 1

\* the path of node ids from the root down to n
RECURSIVE PathTo(_, _)
PathTo(tree, n) == IF n = 0 THEN <<>> ELSE Append(PathTo(tree, tree[n].mParent), n)

\* a is visited before b by a depth-first walk that takes children in order
VisitedBefore(tree, a, b) ==
    LET pa == PathTo(tree, a)
        pb == PathTo(tree, b)
    IN \/ Len(pa) < Len(pb) /\ SubSeq(pb, 1, Len(pa)) = pa
       \/ \E k \in 1..Len(pa) :
            /\ k <= Len(pb)
            /\ pa[k] < pb[k]
            /\ \A j \in 1..(k - 1) : pa[j] = pb[j]

\* the node the hierarchy gives for a name: the last one visited that bears it
NodeNamed(tree, nm) ==
    CHOOSE n \in DOMAIN tree :
        /\ tree[n].mName = nm
        /\ \A m \in DOMAIN tree : (m # n /\ tree[m].mName = nm) => VisitedBefore(tree, m, n)

\* C10: a bone's parent is the BoneTable id of its node's immediate parent exactly
\* when its name is in the hierarchy, that node has a parent and the parent's name
\* is registered; in every other case the bone is a root with parent -1.
C10_ParentResolution ==
    (pc = "sort" \/ (pc = "done" /\ NumBones > 0)) =>
        /\ {unsortedBones[i].name : i \in DOMAIN unsortedBones} = DOMAIN tempBoneMap
        /\ \A i \in DOMAIN unsortedBones :
              LET b == unsortedBones[i]
                  n == NodeNamed(nodes, b.name)
                  p == nodes[n].mParent
              IN /\ b.originalIndex = tempBoneMap[b.name]
                 /\ IF /\ b.name \in NodeNames
                       /\ p # 0
                       /\ nodes[p].mName \in DOMAIN tempBoneMap
                    THEN b.parentIndex = tempBoneMap[nodes[p].mName]
                    ELSE b.parentIndex = -1

\* a bone under a non-bone node whose own parent is a bone: resolved as a root
C10_Witness ==
    /\ pc = "sort"
    /\ \E i \in DOMAIN unsortedBones :
          LET n == NodeNamed(nodes, unsortedBones[i].name)
          IN /\ unsortedBones[i].name \in NodeNames
             /\ nodes[n].mParent # 0
             /\ nodes[nodes[n].mParent].mName \notin DOMAIN tempBoneMap
             /\ nodes[nodes[n].mParent].mParent # 0
             /\ nodes[nodes[nodes[n].mParent].mParent].mName \in DOMAIN tempBoneMap
             /\ unsortedBones[i].parentIndex = -1

\* ---------------------------------------------------------------- properties of a vertex
RECURSIVE SlotBagFrom(_, _)
\* the weights held in the occupied slots i..4, as a multiset
SlotBagFrom(vx, i) ==
    IF i > 4 THEN EmptyBag
    ELSE (IF vx.boneIDs[i] >= 0 THEN SetToBag({vx.weights[i][1]}) ELSE EmptyBag)
            (+) SlotBagFrom(vx, i + 1)

RECURSIVE LargestOf(_, _)
\* the n largest elements of a multiset of numbers
LargestOf(bag, n) ==
    IF n = 0 \/ BagToSet(bag) = {} THEN EmptyBag
    ELSE LET m == CHOOSE x \in BagToSet(bag) : \A y \in BagToSet(bag) : y <= x
         IN SetToBag({m}) (+) LargestOf(bag (-) SetToBag({m}), n - 1)

\* C4: after any sequence of AddBoneWeight calls on an empty vertex the occupied
\* slots hold, as a multiset, the min(k,4) largest weights of the whole sequence.
C4_KeepsFourLargest ==
    pc = "bind" =>
        /\ SlotBagFrom(v, 1) = LargestOf(calls, 4)
        /\ BagCardinality(SlotBagFrom(v, 1)) =
              (IF BagCardinality(calls) < 4 THEN BagCardinality(calls) ELSE 4)

\* the weights 0.1, 0.5, 0.05, 0.4, 0.3 as 2, 5, 1, 4, 3: the slots hold 5, 4, 3, 2
C4_Witness ==
    /\ pc = "bind"
    /\ calls = SetToBag({1, 2, 3, 4, 5})
    /\ [i \in 1..4 |-> v.weights[i][1]] = <<2, 5, 3, 4>>

AllZero(vx) == \A i \in 1..4 : vx.weights[i][1] = 0

SumsToOne(vx) == WeightSum(vx)[1] = UnitsPerOne * WeightSum(vx)[2]

\* C5: after NormalizeWeights either all four weights are 0 or they sum to 1.
C5_ZeroOrUnitSum == pc = "normalized" => (AllZero(v) \/ SumsToOne(v))

\* ---------------------------------------------------------------- properties of main
\* C6: with no bone in any mesh, processSkeleton returns an empty bones list,
\* finalBoneMap stays empty and every written vertex has boneIDs -1 and weights 0.
C6_NoBonesNoSkinning ==
    BoneScan(meshes) = <<>> =>
        /\ pc # "spin"
        /\ skeleton = <<>>
        /\ finalBoneMap = EmptyMap
        /\ \A i \in DOMAIN meshFile :
              /\ meshFile[i].boneIDs = <<-1, -1, -1, -1>>
              /\ \A k \in 1..4 : meshFile[i].weights[k][1] = 0

\* two boneless meshes, the second just written with a vertex in it
C6_Witness ==
    /\ BoneScan(meshes) = <<>>
    /\ Len(meshes) = 2
    /\ pc = "mesh"
    /\ meshIdx = 2
    /\ Len(meshFile) >= 1

\* the places <<mesh, bone>> of the scene's bone records, and their loop order
Places == UNION {{<<m, b>> : b \in 1..Len(meshes[m].mBones)} : m \in 1..Len(meshes)}

Earlier(p, q) == p[1] < q[1] \/ (p[1] = q[1] /\ p[2] < q[2])

NameAt(p) == meshes[p[1]].mBones[p[2]]

\* the places the loop has visited so far
Visited == {p \in Places : Cardinality({q \in Places : Earlier(q, p)}) < scanned}

FirstPlace(nm) ==
    CHOOSE p \in Visited :
        NameAt(p) = nm /\ \A q \in Visited : NameAt(q) = nm => ~Earlier(q, p)

\* C9: the first occurrence of a name, in mesh-then-bone order, takes the next id
\* from 0, later occurrences change nothing; the table is injective onto 0..N-1
\* and tempBoneCounter is its size.
C9_SequentialIds ==
    /\ DOMAIN tempBoneMap = {NameAt(p) : p \in Visited}
    /\ \A nm \in DOMAIN tempBoneMap :
          tempBoneMap[nm] =
              Cardinality({NameAt(q) : q \in {r \in Visited : Earlier(r, FirstPlace(nm))}})
    /\ {tempBoneMap[nm] : nm \in DOMAIN tempBoneMap} = 0..(Cardinality(DOMAIN tempBoneMap) - 1)
    /\ tempBoneCounter = Cardinality(DOMAIN tempBoneMap)

\* a name of the first mesh met again in the second, after another name
C9_Witness ==
    /\ Len(meshes) = 2
    /\ Len(meshes[1].mBones) = 2
    /\ Len(meshes[2].mBones) = 1
    /\ meshes[1].mBones[1] # meshes[1].mBones[2]
    /\ meshes[2].mBones[1] = meshes[1].mBones[1]
    /\ scanned = 3
    /\ tempBoneCounter = 2

\* ---------------------------------------------------------------- properties of processMesh
RECURSIVE SumLens(_, _)
\* the number of indices in the first n faces
SumLens(faces, n) == IF n = 0 THEN 0 ELSE SumLens(faces, n - 1) + Len(faces[n])

\* the names and weight lists of the bones of a mesh
NamesOf(m) == [b \in DOMAIN m.mBones |-> m.mBones[b].mName]

WeightsOf(m) == [b \in DOMAIN m.mBones |-> m.mBones[b].mWeights]

\* C11: the written sequence is the header (vertexCount, indexCount, materialIndex),
\* then one record per vertex in vertex order, then the indices of the faces in face
\* order, each face's indices in their own order; vertexCount is the mesh's vertex
\* count, indexCount the total number of face indices, and the whole sequence is a
\* function of the input (the mesh and the final id map) alone.
C11_MeshFileLayout ==
    pc = "written" =>
        LET nv == mesh.mNumVertices
            ic == SumLens(mesh.mFaces, Len(mesh.mFaces))
            skins == MeshVertices(NamesOf(mesh), nv, WeightsOf(mesh), finalBoneMap)
        IN /\ Len(out) = 3 + nv + ic
           /\ out[1] = nv
           /\ out[2] = ic
           /\ out[3] = mesh.mMaterialIndex
           /\ \A i \in 1..nv :
                 /\ out[3 + i].position = <<mesh.mVertices[i], ScaleDen>>
                 /\ SkinOf(out[3 + i]) = skins[i]
           /\ \A f \in DOMAIN mesh.mFaces :
                 \A j \in DOMAIN mesh.mFaces[f] :
                    out[3 + nv + SumLens(mesh.mFaces, f - 1) + j] = mesh.mFaces[f][j]

\* two vertices in descending position order, a line (0, 1) and a point (1), material 1
C11_Witness ==
    /\ pc = "written"
    /\ mesh.mNumVertices = 2
    /\ mesh.mVertices = <<2, 1>>
    /\ mesh.mFaces = <<<<0, 1>>, <<1>>>>
    /\ mesh.mMaterialIndex = 1
    /\ SubSeq(out, 1, 3) = <<2, 3, 1>>
    /\ SubSeq(out, 6, 8) = <<0, 1, 1>>

\* ---------------------------------------------------------------- properties of the vertex ids
RECURSIVE InfluencesFrom(_, _, _, _)
\* the names of the bones whose influence records name vertex vId, in loop order,
\* from weight wi of bone bi on
InfluencesFrom(m, vId, b, w) ==
    IF b > Len(m.mBones) THEN <<>>
    ELSE IF w > Len(m.mBones[b].mWeights) THEN InfluencesFrom(m, vId, b + 1, 1)
    ELSE (IF m.mBones[b].mWeights[w].mVertexId = vId THEN <<m.mBones[b].mName>> ELSE <<>>)
            \o InfluencesFrom(m, vId, b, w + 1)

\* the skeleton.json entries that list a bone of the given name under the given id
ListedAs(nm, id) ==
    {i \in DOMAIN skeleton : skeleton[i].name = nm /\ skeleton[i].id = id}

\* C12: in every written vertex each occupied slot holds a final id of 0..N-1, the
\* id under which skeleton.json lists the bone named in the influence record the
\* slot comes from.
C12_VertexIdsAreFinalIds ==
    (pc = "mesh" /\ meshIdx > 0) =>
        \A i \in DOMAIN meshFile :
            LET from == InfluencesFrom(mesh, i - 1, 1, 1)
            IN \A k \in 1..4 :
                  meshFile[i].boneIDs[k] >= 0 =>
                     /\ meshFile[i].boneIDs[k] \in 0..(NumBones - 1)
                     /\ IF Len(from) <= 4
                        THEN /\ k <= Len(from)
                             /\ ListedAs(from[k], meshFile[i].boneIDs[k]) # {}
                        ELSE \E n \in DOMAIN from :
                                ListedAs(from[n], meshFile[i].boneIDs[k]) # {}

\* a vertex bound to two bones whose final ids are not their BoneTable ids
C12_Witness ==
    /\ pc = "mesh"
    /\ meshIdx > 0
    /\ Len(meshFile) >= 1
    /\ meshFile[1].boneIDs[1] >= 0
    /\ meshFile[1].boneIDs[2] >= 0
    /\ meshFile[1].boneIDs[1] # meshFile[1].boneIDs[2]
    /\ LET from == InfluencesFrom(mesh, 0, 1, 1)
       IN /\ Len(from) = 2
          /\ tempBoneMap[from[1]] # finalBoneMap[from[1]]
          /\ meshFile[1].boneIDs[1] = finalBoneMap[from[1]]

\* C13: in the variant, where the meshes are written before the skeleton is sorted,
\* every bone id stored in a vertex of a mesh file is the id under which
\* skeleton.json lists the bone of that name.
C13_VariantIdsMatchSkeleton ==
    pc = "v_done" =>
        \A i \in DOMAIN meshFile :
            LET from == InfluencesFrom(mesh, i - 1, 1, 1)
            IN \A k \in 1..4 :
                  meshFile[i].boneIDs[k] >= 0 =>
                     \E n \in DOMAIN from : ListedAs(from[n], meshFile[i].boneIDs[k]) # {}

\* ---------------------------------------------------------------- properties of the sort and the remap
\* the skeleton.json entry of a bone of unsortedBones
EntryOf(u) == skeleton[finalBoneMap[u.name] + 1]

\* the name the BoneTable registers under an original id
NameOfId(k) == CHOOSE nm \in DOMAIN tempBoneMap : tempBoneMap[nm] = k

\* C14: the parentId written for a bone with a parent is the final id of the bone
\* whose original id is its parentOriginalId, so the entry at that position bears
\* the name of the bone's parent node; a bone without parent keeps -1.
C14_ParentRemap ==
    (pc = "done" /\ NumBones > 0) =>
        \A i \in DOMAIN unsortedBones :
            LET u == unsortedBones[i]
            IN IF u.parentIndex = -1
               THEN EntryOf(u).parentId = -1
               ELSE /\ EntryOf(u).parentId = finalBoneMap[NameOfId(u.parentIndex)]
                    /\ EntryOf(u).parentId = newIndices[u.parentIndex]
                    /\ skeleton[EntryOf(u).parentId + 1].name =
                          nodes[nodes[NodeNamed(nodes, u.name)].mParent].mName

\* a bone whose parent's final id differs from the parent's original id, next to a
\* second root
C14_Witness ==
    /\ pc = "done"
    /\ NumBones = 3
    /\ \E i \in DOMAIN unsortedBones :
          /\ unsortedBones[i].parentIndex # -1
          /\ EntryOf(unsortedBones[i]).parentId # unsortedBones[i].parentIndex
    /\ Cardinality({i \in DOMAIN skeleton : skeleton[i].parentId = -1}) = 2

\* C15: when the resolved parent relation is acyclic the sort loop ends: every
\* completed pass has placed at least one bone and the next one will (some unplaced
\* bone is eligible), no bone is placed twice, and all N bones are placed after at
\* most N passes.
C15_SortTerminates ==
    (pc = "sort" /\ ~Cyclic) =>
        /\ passCount > 0 => lastPlaced >= 1
        /\ addedCount < NumBones => \E i \in DOMAIN unsortedBones : EligibleNow(i)
        /\ addedCount >= passCount
        /\ passCount <= NumBones
        /\ passCount = NumBones => addedCount = NumBones
        /\ Len(sortedBones) = addedCount
        /\ \A i, j \in DOMAIN sortedBones : i # j => sortedBones[i].name # sortedBones[j].name
        /\ \A k \in 0..(NumBones - 1) :
              added[k] <=> \E i \in DOMAIN sortedBones : sortedBones[i].originalIndex = k

\* a chain of three bones that the scan meets child first: one bone per pass, N passes
C15_Witness ==
    /\ pc = "sort"
    /\ ~Cyclic
    /\ NumBones = 3
    /\ passCount = 3
    /\ addedCount = 3
    /\ [i \in DOMAIN sortedBones |-> sortedBones[i].name] = <<3, 2, 1>>

\* C20: whatever the node tree (names may repeat, nodeMap keeps the last node
\* visited per name), the parent relation resolved among the registered bones has
\* no cycle and no bone is its own parent.
C20_ResolvedAcyclic ==
    pc = "sort" =>
        /\ ~Cyclic
        /\ \A i \in DOMAIN unsortedBones :
              unsortedBones[i].parentIndex # unsortedBones[i].originalIndex

\* ---------------------------------------------------------------- properties of the phases of main
\* the bone names of the whole scene
SceneBoneNames == {BoneScan(meshes)[i] : i \in DOMAIN BoneScan(meshes)}

\* C16: the BoneTable is written only by the registration loop and is complete when
\* processSkeleton starts; finalBoneMap is written only by processSkeleton, before
\* the first processMesh call; a processMesh call changes neither map.
C16_PhaseOrdering ==
    [][/\ (tempBoneMap' # tempBoneMap \/ tempBoneCounter' # tempBoneCounter) =>
            /\ pc = "register" /\ pc' = "register"
            /\ meshIdx = 0
            /\ finalBoneMap = EmptyMap /\ skeleton = <<>>
       /\ (pc = "register" /\ pc' # "register") =>
            /\ DOMAIN tempBoneMap = SceneBoneNames
            /\ tempBoneMap' = tempBoneMap
            /\ meshIdx = 0 /\ meshIdx' = 0
       /\ (finalBoneMap' # finalBoneMap \/ skeleton' # skeleton) =>
            /\ pc = "register" /\ pc' = "mesh"
            /\ DOMAIN finalBoneMap' = SceneBoneNames
       /\ meshIdx' # meshIdx =>
            /\ pc = "mesh"
            /\ DOMAIN finalBoneMap = DOMAIN tempBoneMap
            /\ tempBoneMap' = tempBoneMap /\ tempBoneCounter' = tempBoneCounter
            /\ finalBoneMap' = finalBoneMap /\ skeleton' = skeleton]_vars

\* both meshes of a scene with two bones are processed, with the maps filled
C16_Witness ==
    /\ pc = "mesh"
    /\ meshIdx = 2
    /\ Cardinality(DOMAIN tempBoneMap) = 2
    /\ DOMAIN finalBoneMap = DOMAIN tempBoneMap
    /\ Len(mesh.mBones) >= 1

\* ---------------------------------------------------------------- properties of the binding
\* the vertex records of a written file
WrittenVertices(file) == SubSeq(file, 4, 3 + file[1])

\* C17: in processMesh a vertex is bound only while no vertex has been normalised,
\* each vertex is normalised once, in turn, after the bone loop has ended, and the
\* records written are the vertices as the normalisation left them: the fully bound
\* vertices, normalised once.
C17_NormalizeOnceAfterBinding ==
    [][/\ weightI' = weightI + 1 =>
            LET rec == mesh.mBones[boneI + 1].mWeights[weightI + 1]
                vx == rec.mVertexId + 1
            IN /\ normI = 0 /\ normI' = 0
               /\ SkinOf(vertices'[vx]) =
                     AddBoneWeight(SkinOf(vertices[vx]),
                                   finalBoneMap[mesh.mBones[boneI + 1].mName],
                                   Frac(rec.mWeight))
               /\ \A i \in DOMAIN vertices : i # vx => vertices'[i] = vertices[i]
       /\ normI' # normI =>
            /\ normI' = normI + 1
            /\ boneI = Len(mesh.mBones) /\ boneI' = boneI
            /\ SkinOf(vertices'[normI']) = NormalizeWeights(SkinOf(vertices[normI']))
            /\ \A i \in DOMAIN vertices : i # normI' => vertices'[i] = vertices[i]
       /\ (vertices' # vertices /\ pc = "run") => (weightI' = weightI + 1 \/ normI' # normI)
       /\ out' # out =>
            /\ normI = Len(vertices)
            /\ vertices' = vertices
            /\ WrittenVertices(out') = vertices
            /\ \A i \in DOMAIN vertices :
                  SkinOf(vertices[i]) =
                     NormalizeWeights(
                        BindBones([k \in DOMAIN vertices |-> DefaultVertex], NamesOf(mesh),
                                  WeightsOf(mesh), finalBoneMap, 1)[i])]_vars

\* a written vertex bound to two bones with different weights, which sum to 1
C17_Witness ==
    /\ pc = "written"
    /\ Len(vertices) >= 1
    /\ out[4].boneIDs[1] >= 0
    /\ out[4].boneIDs[2] >= 0
    /\ out[4].weights[1] # out[4].weights[2]
    /\ SumsToOne(out[4])

\* C18: every AddBoneWeight call BindWeight can make, on any vertex the calls before
\* it can produce and with any bone id and weight: with an empty
\* slot only the lowest empty slot changes and takes the incoming id and weight;
\* with four occupied slots and an incoming weight above the minimum only the lowest
\* slot holding the minimum changes; otherwise the vertex is unchanged.
C18_AddBoneWeightStep ==
    (pc = "bind" /\ BagCardinality(calls) < MaxCalls) =>
        LET empty == {i \in 1..4 : v.boneIDs[i] < 0}
            least == CHOOSE x \in {v.weights[i][1] : i \in 1..4} :
                        \A i \in 1..4 : x <= v.weights[i][1]
            target == IF empty # {}
                      THEN CHOOSE e \in empty : \A i \in empty : e <= i
                      ELSE CHOOSE m \in 1..4 :
                              /\ v.weights[m][1] = least
                              /\ \A i \in 1..(m - 1) : v.weights[i][1] # least
        IN \A boneId \in 0..MaxBoneId, w \in Weights :
              LET r == AddBoneWeight(v, boneId, Frac(w))
              IN IF empty # {} \/ w > least
                 THEN r = [boneIDs |-> [v.boneIDs EXCEPT ![target] = boneId],
                           weights |-> [v.weights EXCEPT ![target] = Frac(w)]]
                 ELSE r = v

\* 3, 1, 1, 2 fill the slots and 4 replaces the first of the two 1s
C18_Witness ==
    /\ pc = "bind"
    /\ calls = SetToBag({2, 3, 4}) (+) SetToBag({1}) (+) SetToBag({1})
    /\ [i \in 1..4 |-> v.weights[i][1]] = <<3, 4, 1, 2>>

\* ---------------------------------------------------------------- properties of the offsets
\* the first bone record of a name, in mesh-then-bone order
FirstRecord(nm) ==
    CHOOSE p \in Places : NameAt(p) = nm /\ \A q \in Places : NameAt(q) = nm => ~Earlier(q, p)

\* the offset matrix of the bone record at a place
OffsetAt(p) == meshes[p[1]].mOffsetMatrix[p[2]]

\* C19: the offset of every registered bone is the offset of the first bone record
\* of its name, meshes in index order and bones in index order within a mesh; later
\* records of the name are ignored; the identity is what a lookup gives for a name
\* that no mesh defines, and only for such a name is it a default.
C19_FirstOffsetWins ==
    (pc = "sort" \/ pc = "done") =>
        /\ \A i \in DOMAIN unsortedBones :
              /\ \E p \in Places : NameAt(p) = unsortedBones[i].name
              /\ unsortedBones[i].offsetMatrix = OffsetAt(FirstRecord(unsortedBones[i].name))
        /\ \A nm \in Names :
              (\A p \in Places : NameAt(p) # nm) <=> ~FindBoneOffset(meshes, nm, IdentityMatrix, 1).found
        /\ \A nm \in Names :
              (\A p \in Places : NameAt(p) # nm) => OffsetOf(meshes, nm) = IdentityMatrix
        /\ pc = "done" =>
              \A i \in DOMAIN skeleton :
                  LET m == OffsetAt(FirstRecord(skeleton[i].name))
                  IN /\ skeleton[i].offset.lin = m.lin
                     /\ skeleton[i].offset.trans = <<m.trans, ScaleDen>>

\* two meshes define the same bone with different offsets, neither the identity;
\* the skeleton carries the first
C19_Witness ==
    /\ pc = "done"
    /\ Len(meshes) = 2
    /\ Len(meshes[1].mBones) = 1
    /\ Len(meshes[2].mBones) = 1
    /\ meshes[1].mBones[1] = meshes[2].mBones[1]
    /\ meshes[1].mOffsetMatrix[1] # meshes[2].mOffsetMatrix[1]
    /\ meshes[1].mOffsetMatrix[1] # IdentityMatrix
    /\ meshes[2].mOffsetMatrix[1] # IdentityMatrix
    /\ skeleton[1].offset.lin = meshes[1].mOffsetMatrix[1].lin

\* ---------------------------------------------------------------- the slots of one vertex
\* the slots of a vertex that hold a bone
Occupied(vx) == {i \in 1..4 : vx.boneIDs[i] >= 0}

\* C21: under any sequence of AddBoneWeight calls the occupied slots of the vertex are
\* a prefix of the four slots, an empty slot has bone id -1 and weight 0, the number
\* of occupied slots is the number of calls or 4, whichever is smaller, and no step
\* empties an occupied slot.
C21_SlotPrefix ==
    /\ [](/\ \A i \in 1..4 : i \notin Occupied(v) => \A j \in (i + 1)..4 : j \notin Occupied(v)
          /\ \A i \in 1..4 : i \notin Occupied(v) => v.boneIDs[i] = -1 /\ v.weights[i][1] = 0
          /\ Cardinality(Occupied(v)) =
                (IF BagCardinality(calls) < 4 THEN BagCardinality(calls) ELSE 4))
    /\ [][Occupied(v) \subseteq Occupied(v')]_vars

\* three calls: slots 0, 1, 2 hold bones and slot 3 is still empty
C21_Witness ==
    /\ pc = "bind"
    /\ BagCardinality(calls) = 3
    /\ Occupied(v) = {1, 2, 3}
    /\ v.boneIDs = <<1, 0, 1, -1>>
    /\ v.weights[4] = Frac(0)

\* ---------------------------------------------------------------- the vertex index of a record
\* C22: every AddBoneWeight call of processMesh is on a vertex whose index is below
\* the vertex count of the mesh: a step that applies an influence record, or faults
\* on it, takes a record whose mVertexId is less than mNumVertices.
C22_VertexIndexInBounds ==
    [][(pc = "run" /\ (weightI' = weightI + 1 \/ pc' = "fault")) =>
          mesh.mBones[boneI + 1].mWeights[weightI + 1].mVertexId < mesh.mNumVertices]_vars

====
